---------------------------- MODULE Spec2Model ----------------------------
(***************************************************************************)
(* Model of src/stub.c, the native stub of illusory0x0/illu-string_of_bytes*)
(*                                                                         *)
(*   void    illusory0x0_moonbit_set_array_header(void *array,             *)
(*                                                uint32_t meta)           *)
(*   int32_t illusory0x0_moonbit_make_array_header(int32_t kind,           *)
(*                                                 int32_t elem_size_shift,*)
(*                                                 int32_t length)         *)
(*                                                                         *)
(* Both bodies are expansions of macros of <moonbit.h>, the MoonBit        *)
(* runtime header included at line 1 of stub.c:                            *)
(*                                                                         *)
(*   struct moonbit_object { int32_t rc; uint32_t meta; };                 *)
(*   #define Moonbit_object_header(obj)                                    *)
(*       (the struct moonbit_object that ends where obj points)            *)
(*   #define Moonbit_make_array_header(kind, elem_size_shift, length)      *)
(*       (((uint32_t)kind << 30)                                           *)
(*        | (((uint32_t)(elem_size_shift) & 3) << 28)                      *)
(*        | ((length) & ((1 << 28) - 1)))                                  *)
(*                                                                         *)
(* An int32_t is a TLA+ integer in -2^31 .. 2^31-1.  A uint32_t is a word: *)
(* the set of the positions 0..31 of its 1 bits, so that the casts between *)
(* the two types, the shifts and the bitwise operators are computed as the *)
(* C code computes them and never as the identity.                         *)
(***************************************************************************)
EXTENDS Integers, Sequences, FiniteSets, TLC

VARIABLES
    heap,     \* the live array objects: id -> [rc, meta, payload]
    made,     \* the latest call of make_array_header: its arguments and result
    last,     \* the latest call of either function
    written,  \* history: per object, the meta of the latest call that targeted it
    memo      \* history: some earlier call of make_array_header and its result

vars == <<heap, made, last, written, memo>>

---------------------------------------------------------------------------
(* Bounds of the model *)

\* how many array objects the allocator may have handed out
NumObjects == 2
\* bytes of payload that follow each object's header
PayloadLen == 2

---------------------------------------------------------------------------
(* 32-bit words *)

\* width of uint32_t / int32_t
WordBits == 32
\* Moonbit_make_array_header: (uint32_t)kind << 30
KindShift == 30
\* Moonbit_make_array_header: ((uint32_t)(elem_size_shift) & 3)
ElemSizeShiftMask == 3
\* Moonbit_make_array_header: ... << 28, and (length) & ((1 << 28) - 1)
LengthBits == 28

Bits == 0 .. (WordBits - 1)
SignBit == WordBits - 1

\* bit i of the two's complement representation of the int32_t x
BitOf(x, i) ==
    IF i = SignBit THEN (IF x < 0 THEN 1 ELSE 0)
    ELSE IF x >= 0 THEN (x \div 2^i) % 2
    ELSE 1 - (((-(x + 1)) \div 2^i) % 2)

\* (uint32_t)x for an int32_t x: the value modulo 2^32
ToUint32(x) == {i \in Bits : BitOf(x, i) = 1}

RECURSIVE Field(_, _, _)
\* the unsigned value of the n bits of the word w that start at bit lo
Field(w, lo, n) ==
    IF n = 0 THEN 0
    ELSE Field(w, lo, n - 1) + (IF lo + n - 1 \in w THEN 2^(n - 1) ELSE 0)

\* (int32_t)w for a uint32_t w: the two's complement reading of the word
ToInt32(w) ==
    LET low == Field(w, 0, SignBit)
    IN  IF SignBit \in w THEN (low - 2^(SignBit - 1)) - 2^(SignBit - 1)
        ELSE low

\* w << n on uint32_t: the bits shifted out at the top are lost
Shl(w, n) == {i + n : i \in {j \in w : j + n < WordBits}}
\* a & b
BitAnd(a, b) == a \cap b
\* a | b
BitOr(a, b) == a \cup b

---------------------------------------------------------------------------
(* The header word *)

\* largest value of each field of the header word
KindMax == 2^(WordBits - KindShift) - 1
ElemSizeShiftMax == ElemSizeShiftMask
LengthMax == 2^LengthBits - 1

\* x & y on int (length & ((1 << 28) - 1) is computed in int)
IntAnd(x, y) == ToInt32(BitAnd(ToUint32(x), ToUint32(y)))

\* the element size shift lands one bit too low, on top of the length
HeaderFieldsOverlap(kind, elem_size_shift, length) ==
    BitOr(BitOr(Shl(ToUint32(kind), KindShift),
                Shl(BitAnd(ToUint32(elem_size_shift), ToUint32(ElemSizeShiftMask)),
                    LengthBits - 1)),
          ToUint32(IntAnd(length, LengthMax)))

\* the length is not masked to its field
HeaderLengthUnmasked(kind, elem_size_shift, length) ==
    BitOr(BitOr(Shl(ToUint32(kind), KindShift),
                Shl(BitAnd(ToUint32(elem_size_shift), ToUint32(ElemSizeShiftMask)),
                    LengthBits)),
          ToUint32(length))

\* the kind is clamped to the enumeration before it is packed
HeaderKindClamped(kind, elem_size_shift, length) ==
    BitOr(BitOr(Shl(ToUint32(IF kind < 0 THEN 0
                             ELSE IF kind > 2^(WordBits - KindShift) - 1
                                  THEN 2^(WordBits - KindShift) - 1
                                  ELSE kind), KindShift),
                Shl(BitAnd(ToUint32(elem_size_shift), ToUint32(ElemSizeShiftMask)),
                    LengthBits)),
          ToUint32(IntAnd(length, LengthMax)))

\* the macro, operator by operator; the result has type uint32_t
Moonbit_make_array_header(kind, elem_size_shift, length) ==
    BitOr(BitOr(Shl(ToUint32(kind), KindShift),
                Shl(BitAnd(ToUint32(elem_size_shift), ToUint32(ElemSizeShiftMask)),
                    LengthBits)),
          ToUint32(IntAnd(length, LengthMax)))

\* the header is built up in a static word that is never cleared
AccumulatedArrayHeader(kind, elem_size_shift, length) ==
    ToInt32(BitOr(Moonbit_make_array_header(kind, elem_size_shift, length),
                  IF made.called THEN ToUint32(made.ret) ELSE {}))

\* a word with the top bit set is returned as the largest int32
SaturatedArrayHeader(kind, elem_size_shift, length) ==
    IF SignBit \in Moonbit_make_array_header(kind, elem_size_shift, length)
    THEN (2^(SignBit - 1) - 1) + 2^(SignBit - 1)
    ELSE ToInt32(Moonbit_make_array_header(kind, elem_size_shift, length))

\* the function's value: the macro's uint32_t returned as int32_t
illusory0x0_moonbit_make_array_header(kind, elem_size_shift, length) ==
    ToInt32(Moonbit_make_array_header(kind, elem_size_shift, length))

\* decode: the three fields of a header word
Decode(w) ==
    [kind            |-> Field(w, KindShift, WordBits - KindShift),
     elem_size_shift |-> Field(w, LengthBits, KindShift - LengthBits),
     length          |-> Field(w, 0, LengthBits)]

---------------------------------------------------------------------------
(* Inputs *)

\* the calls of make_array_header: <<kind, elem_size_shift, length>>
Inputs ==
    { <<2, 3, 5>>,                            \* the documented example
      <<1, 1, 5>>,                            \* a header with the top bit clear
      <<KindMax, ElemSizeShiftMax, LengthMax>>,   \* every field at its largest
      <<2, 2, LengthMax + 1>>,                \* length one past the largest
      <<2, ElemSizeShiftMax + 1, 5>>,         \* shift one past the largest
      <<KindMax + 1, 3, 5>>,                  \* kind one past the largest
      <<-1, 3, 5>> }                          \* a negative kind
\* meta values a caller may pass that no call of make_array_header produced
MetaArgs == {11010}

\* the payload bytes of object a: PayloadLen bytes and a - 1 more
Payload(a) == [i \in 1 .. PayloadLen + a - 1 |-> 16 * a + i]
\* the header object a holds when the stub first sees it: the allocator's,
\* an array header of one-byte elements with the payload's length
AllocMeta(a) == Moonbit_make_array_header(2, 0, Len(Payload(a)))
\* object a as the allocator left it
AllocObject(a) == [rc |-> 1, meta |-> AllocMeta(a), payload |-> Payload(a)]

\* no call of make_array_header yet
NoCall == [called |-> FALSE, kind |-> 0, elem_size_shift |-> 0, length |-> 0,
           err |-> "none", ret |-> 0]

---------------------------------------------------------------------------
(* State and operations *)

Init ==
    /\ \E n \in 0 .. NumObjects : heap = [a \in 1 .. n |-> AllocObject(a)]
    /\ written = [a \in DOMAIN heap |-> << >>]
    /\ made = NoCall
    /\ memo = NoCall
    /\ last = [op |-> "init", obj |-> 0, arg |-> 0]

\* the header is not looked up: the word lands at array itself, in the payload
StoreMetaIntoPayload(h, array, meta) ==
    [h EXCEPT ![array].payload = [@ EXCEPT ![1] = Field(meta, 0, 8)]]

\* the new word is merged into the old one
StoreMetaMerged(h, array, meta) ==
    [h EXCEPT ![array].meta = BitOr(@, meta)]

\* a word whose kind field is 0 (not an array) is refused
StoreMetaValidated(h, array, meta) ==
    IF Field(meta, KindShift, WordBits - KindShift) = 0 THEN h
    ELSE [h EXCEPT ![array].meta = meta]

\* obj->meta = meta, obj being Moonbit_object_header(array)
StoreMeta(h, array, meta) == [h EXCEPT ![array].meta = meta]

\* the call also stamps the header into the first object
Call_make_and_stamp(kind, elem_size_shift, length) ==
    LET call == [called |-> TRUE, kind |-> kind,
                 elem_size_shift |-> elem_size_shift,
                 length |-> length, err |-> "none",
                 ret |-> illusory0x0_moonbit_make_array_header(
                             kind, elem_size_shift, length)]
    IN  /\ made' = call
        /\ memo' \in {memo, made}
        /\ last' = [op |-> "make", obj |-> 0, arg |-> 0]
        /\ heap' = [a \in DOMAIN heap |->
                      IF a = 1 THEN [heap[a] EXCEPT !.meta = ToUint32(call.ret)]
                      ELSE heap[a]]
        /\ UNCHANGED written

\* a call of make_array_header; the history may remember the call it replaces
Call_make_array_header(kind, elem_size_shift, length) ==
    LET call == [called |-> TRUE, kind |-> kind,
                 elem_size_shift |-> elem_size_shift,
                 length |-> length, err |-> "none",
                 ret |-> illusory0x0_moonbit_make_array_header(
                             kind, elem_size_shift, length)]
    IN  /\ made' = call
        /\ memo' \in {memo, made}
        /\ last' = [op |-> "make", obj |-> 0, arg |-> 0]
        /\ UNCHANGED <<heap, written>>

\* a negative argument is taken for 0
ParamMetaSaturated(arg) == IF arg < 0 THEN {} ELSE ToUint32(arg)

\* the uint32_t parameter meta: the caller's 32 bits, read unsigned
ParamMeta(arg) == ToUint32(arg)

\* a call of set_array_header on a live object
illusory0x0_moonbit_set_array_header(array, arg) ==
    LET meta == ParamMeta(arg)
    IN  /\ array \in DOMAIN heap
        /\ heap' = StoreMeta(heap, array, meta)
        /\ written' = [written EXCEPT ![array] = <<meta>>]
        /\ last' = [op |-> "set", obj |-> array, arg |-> arg]
        /\ UNCHANGED <<made, memo>>

Next ==
    \/ \E in \in Inputs : Call_make_array_header(in[1], in[2], in[3])
    \/ \E array \in DOMAIN heap, arg \in MetaArgs :
         illusory0x0_moonbit_set_array_header(array, arg)
    \/ \E array \in DOMAIN heap :
         /\ made.called
         /\ illusory0x0_moonbit_set_array_header(array, made.ret)

Spec == Init /\ [][Next]_vars

---------------------------------------------------------------------------
(* Properties *)

\* every argument of the call c lies within its field
ValidArgs(c) ==
    /\ c.kind \in 0 .. KindMax
    /\ c.elem_size_shift \in 0 .. ElemSizeShiftMax
    /\ c.length \in 0 .. LengthMax

\* the arguments of the call c, as a decoded header
ArgsOf(c) ==
    [kind |-> c.kind, elem_size_shift |-> c.elem_size_shift, length |-> c.length]

\* the arguments of the call c, each reduced modulo the size of its field
WrappedArgsOf(c) ==
    [kind            |-> c.kind % (KindMax + 1),
     elem_size_shift |-> c.elem_size_shift % (ElemSizeShiftMax + 1),
     length          |-> c.length % (LengthMax + 1)]

\* the header word the latest call of make_array_header returned
MadeWord == ToUint32(made.ret)

\* C1: round trip. Whenever make_array_header was called with every
\* argument within its field, decoding the value it returned yields exactly
\* the arguments.
C1_RoundTrip ==
    (made.called /\ ValidArgs(made)) => Decode(MadeWord) = ArgsOf(made)

C1_Witness ==
    /\ made.called
    /\ ValidArgs(made)
    /\ made.length = LengthMax
    /\ Decode(MadeWord) = ArgsOf(made)

C4_InPlace ==
    [][last'.op = "set" =>
         /\ last'.obj \in DOMAIN heap
         /\ DOMAIN heap' = DOMAIN heap
         /\ ToInt32(heap'[last'.obj].meta) = last'.arg
         /\ heap'[last'.obj].rc = heap[last'.obj].rc
         /\ heap'[last'.obj].payload = heap[last'.obj].payload
         /\ \A b \in DOMAIN heap \ {last'.obj} : heap'[b] = heap[b]]_vars

C4_Witness ==
    /\ last.op = "set"
    /\ Cardinality(DOMAIN heap) >= 2
    /\ heap[last.obj].meta # AllocMeta(last.obj)
    /\ heap[last.obj].payload = Payload(last.obj)
    /\ \E b \in DOMAIN heap \ {last.obj} : heap[b] = AllocObject(b)

\* C5 as stated: the fields lie at bits [0:8), [8:11) and [11:32), so that
\* make_array_header(2, 3, 5) = 2 | (3 << 8) | (5 << 11).
C5_SpecLayout ==
    (made.called /\ ValidArgs(made) /\ made.length < 2^20)
        => made.ret = made.kind + made.elem_size_shift * 2^8 + made.length * 2^11

\* C5 amended: for arguments within their fields make_array_header returns
\* (kind << 30) | (elem_size_shift << 28) | length, read as an int32: the
\* fields lie at the disjoint bit ranges [30:32), [28:30) and [0:28). In
\* particular make_array_header(2, 3, 5) is 0xB0000005, the int32
\* -1342177275, and decodes to (2, 3, 5).
C5_BitLayout ==
    (made.called /\ ValidArgs(made))
        => /\ made.ret = (((made.kind % 2) * 2^(KindShift)
                           + made.elem_size_shift * 2^LengthBits + made.length)
                          - (made.kind \div 2) * 2^(KindShift))
                         - (made.kind \div 2) * 2^(KindShift)
           /\ Field(MadeWord, KindShift, WordBits - KindShift) = made.kind
           /\ Field(MadeWord, LengthBits, KindShift - LengthBits)
                = made.elem_size_shift
           /\ Field(MadeWord, 0, LengthBits) = made.length
           /\ ArgsOf(made) = [kind |-> 2, elem_size_shift |-> 3, length |-> 5]
                => made.ret = -1342177275

C5_Witness ==
    /\ made.called
    /\ ArgsOf(made) = [kind |-> 2, elem_size_shift |-> 3, length |-> 5]
    /\ made.ret = -1342177275
    /\ Decode(MadeWord) = ArgsOf(made)

\* C6: make_array_header has no side effects. A call of it leaves every
\* object's header word, reference count and payload as they were, and it
\* can be called while no object exists.
C6_NoSideEffect ==
    [][last'.op = "make" => heap' = heap]_vars

C6_Witness ==
    /\ last.op = "make"
    /\ made.called
    /\ DOMAIN heap = {}

C8_NoValidation ==
    last.op = "set"
        => /\ last.obj \in DOMAIN heap
           /\ written[last.obj] = <<heap[last.obj].meta>>
           /\ ToInt32(heap[last.obj].meta) = last.arg

C8_Witness ==
    /\ last.op = "set"
    /\ ~made.called
    /\ last.arg \in MetaArgs
    /\ Decode(heap[last.obj].meta).kind = 0
    /\ ToInt32(heap[last.obj].meta) = last.arg

\* C9: last write wins. The header word of an object is the meta of the
\* latest call of set_array_header that targeted it, and the allocator's
\* header if no call targeted it; nothing of an earlier word is kept.
C9_LastWriteWins ==
    \A a \in DOMAIN heap :
        heap[a].meta = IF written[a] = << >> THEN AllocMeta(a) ELSE written[a][1]

C9_Witness ==
    \E a, b \in DOMAIN heap :
        /\ written[a] = << >>
        /\ heap[a].meta = AllocMeta(a)
        /\ written[b] # << >>
        /\ heap[b].meta = written[b][1]
        /\ ~(AllocMeta(b) \subseteq heap[b].meta)

\* C10: the signed/unsigned hand-off keeps the bits. When the negative
\* int32 that make_array_header returned is passed to set_array_header, the
\* stored word has its top bit set, equals the returned value modulo 2^32,
\* and decodes to the fields the header was made of.
C10_HandOff ==
    (last.op = "set" /\ made.called /\ last.arg = made.ret /\ made.ret < 0)
        => /\ SignBit \in heap[last.obj].meta
           /\ Field(heap[last.obj].meta, 0, SignBit)
                = (made.ret + 2^(SignBit - 1)) + 2^(SignBit - 1)
           /\ Decode(heap[last.obj].meta) = WrappedArgsOf(made)

C10_Witness ==
    /\ last.op = "set"
    /\ made.called
    /\ ValidArgs(made)
    /\ last.arg = made.ret
    /\ made.ret < 0
    /\ Decode(heap[last.obj].meta) = ArgsOf(made)

============================================================================
